---- MODULE Spec2Model ----
(***************************************************************************)
(* django-impression: the message composition and delivery pipeline.       *)
(*                                                                         *)
(* The model covers the model layer (impression/models/*.py) and the       *)
(* re-drive command (management/commands/impression_send_emails.py).       *)
(* Callers of the model layer (the API view, the mail backends, the admin) *)
(* appear as workers that construct a Message, assign ready_to_send, attach*)
(* extra addresses and call save() / send().                               *)
(*                                                                         *)
(* Time is counted in minutes since 2019-12-01 00:00 (a Sunday), the month *)
(* the repository's rate-limit tests use; the clock stays inside that      *)
(* month.                                                                  *)
(***************************************************************************)
EXTENDS Integers, Sequences, FiniteSets, TLC

(***************************************************************************)
(* Bounds of the model.                                                    *)
(***************************************************************************)
\* rows the Message table may hold (primary keys 1..MaxMessages)
MaxMessages == 2
\* top-level save() / send() calls one worker issues
MaxCalls == 3
\* transport calls the outbox records
MaxOutbox == 3
\* advances of the clock
MaxTicks == 3

(***************************************************************************)
(* Program constants.                                                      *)
(***************************************************************************)
\* a null DateTimeField / ForeignKey / unsaved pk
NULL == -1
\* RateLimit.grouping
TOTAL == 0
PER_USER == 1
PER_GROUP == 2
\* RateLimit.type
BLOCK_PERIOD == 0
ROLLING_WINDOW == 1
\* RateLimit.block_period
HOUR == 0
DAY == 1
WEEK == 2
MONTH == 3
\* Service.json_body_policy
FORBID == "forbid"
PERMIT == "permit"
REQUIRE == "require"

MinutesPerHour == 60
MinutesPerDay == 24 * 60

(***************************************************************************)
(* Identities.                                                             *)
(***************************************************************************)
Workers == {"w1", "w2"}
\* the command-line processes running impression_send_emails
Sweepers == {"sweep"}
\* stored EmailAddress rows that services, distributions and messages use
Addresses == {"a1", "a2", "a3"}
\* the DEFAULT_FROM_EMAIL setting, resolved by get_or_create on demand
DefaultFromEmail == "webmaster@localhost"
Dists == {"d1", "d2", "d3"}
\* the service the messages belong to, and another service addresses may
\* be unsubscribed from
ThisService == "svc"
OtherService == "other"
ServiceNames == {ThisService, OtherService}
NoUser == "nobody"
Users == {"u1", "u2"}
Groups == {"g1", "g2"}
Kinds == {"to", "cc", "bcc"}

VARIABLES
    now,            \* the clock (timezone.now()), minutes since the epoch
    ticks,          \* how often the clock advanced
    service,        \* the Service row ThisService
    distribution,   \* the Distribution rows: name -> members and children
    emailAddress,   \* the EmailAddress rows: address -> unsubscribe state
    userGroups,     \* user -> groups (django.contrib.auth)
    messages,       \* the Message rows: pk -> scalar columns
    extra,          \* Message.extra_{to,cc,bcc}_email_addresses (M2M rows)
    final,          \* Message.final_{to,cc,bcc}_email_addresses (M2M rows)
    outbox,         \* the calls made to the mail transport (email.send())
    pc,             \* where each worker / sweeper stands
    mem,            \* each worker's in-memory Message object
    call,           \* bookkeeping of each worker's current top-level call
    ncalls,         \* top-level calls each worker has issued
    plan,           \* the caller's inputs: constructor arguments and extras
    todo,           \* each sweeper's reference list of candidate pks
    collect,        \* the call stack of Distribution.collect_email_addresses()
    emailRows,      \* the EmailAddress table as EmailAddress.get_or_create sees it
    servers,        \* the RemoteImpressionServer table
    ret             \* what the last call on these two tables returned or raised

vars == <<now, ticks, service, distribution, emailAddress, userGroups, messages,
          extra, final, outbox, pc, mem, call, ncalls, plan, todo, collect,
          emailRows, servers, ret>>

(***************************************************************************)
(* Distribution resolver.                                                  *)
(***************************************************************************)
\* The Distribution rows in primary-key order, the order in which the
\* ORM's .all() yields related rows.
DistOrder == <<"d1", "d2", "d3">>

\* The first row of a non-empty set of distributions in that order.
First(S) ==
    DistOrder[CHOOSE i \in 1..Len(DistOrder) :
                /\ DistOrder[i] \in S
                /\ \A j \in 1..(i - 1) : DistOrder[j] \notin S]

RECURSIVE CollectFrom(_, _, _)
RECURSIVE CollectChildren(_, _, _, _)
\* One call d.collect_email_addresses(already_collected) under the rows
\* dist: the addresses it returns and the set it leaves in
\* already_collected (the set is shared by reference along the recursion).
CollectFrom(dist, d, already_collected) ==
    LET seen == IF already_collected = {} THEN {d} ELSE already_collected \cup {d}
    IN  CollectChildren(dist, dist[d].distributions, dist[d].email_addresses, seen)

\* The loop over self.distributions.all(): r is the result so far.
CollectChildren(dist, rest, r, seen) ==
    IF rest = {} THEN [r |-> r, seen |-> seen]
    ELSE LET c == First(rest)
         IN  IF c \in seen
             THEN CollectChildren(dist, rest \ {c}, r, seen)
             ELSE LET sub == CollectFrom(dist, c, seen)
                  IN  CollectChildren(dist, rest \ {c}, r \cup sub.r, sub.seen)

\* Distribution.collect_email_addresses() as callers use it: no argument.
DistributionCollect(dist, d) == CollectFrom(dist, d, {}).r

(***************************************************************************)
(* Service policy engine.                                                  *)
(***************************************************************************)
\* Service._collect_email_addresses_by_kind
CollectByKind(svc, dist, kind) ==
    svc.email_addresses[kind]
        \cup UNION {DistributionCollect(dist, d) : d \in svc.distributions[kind]}

\* Service.collect_email_addresses: (to, cc, bcc)
ServiceCollect(svc, dist) == [k \in Kinds |-> CollectByKind(svc, dist, k)]

\* A lookup of the per-service unsubscriptions only.
IsUnsubscribedFromService(rows, a, svcName) ==
    svcName \in rows[a].service_unsubscriptions

\* EmailAddress.is_unsubscribed_from(service)
IsUnsubscribedFrom(rows, a, svcName) ==
    rows[a].unsubscribed_from_all \/ svcName \in rows[a].service_unsubscriptions

\* Service.filter_unsubscribed(email_set). The pass-through branch returns
\* the name `emails`, which the method never binds: it raises NameError.
FilterUnsubscribed(svc, rows, email_set) ==
    IF svc.is_unsubscribable
    THEN [err |-> "", set |-> {e \in email_set : ~IsUnsubscribedFrom(rows, e, ThisService)}]
    ELSE [err |-> "NameError: emails", set |-> {}]

\* Message._get_final_emails_by_kind(initial_set, kind)
FinalEmailsByKind(svc, rows, initial_set, extras, kind) ==
    FilterUnsubscribed(svc, rows, initial_set \cup extras[kind])

\* Message.get_final_emails(): (to, cc, bcc), or the error it raises
GetFinalEmails(svc, dist, rows, extras) ==
    LET col == ServiceCollect(svc, dist)
        by  == [k \in Kinds |-> FinalEmailsByKind(svc, rows, col[k], extras, k)]
    IN  IF \E k \in Kinds : by[k].err # ""
        THEN [err |-> by[CHOOSE k \in Kinds : by[k].err # ""].err,
              set |-> [k \in Kinds |-> {}]]
        ELSE [err |-> "", set |-> [k \in Kinds |-> by[k].set]]

\* A sender lookup that honours an override whatever the service allows.
GetFromEmailAnyOverride(svc, m) ==
    IF m.override_from_email_address # ""
    THEN m.override_from_email_address
    ELSE IF svc.from_email_address # ""
         THEN svc.from_email_address
         ELSE DefaultFromEmail

\* Message.get_from_email(): the sender, and whether it had to be created
\* from the DEFAULT_FROM_EMAIL setting.
GetFromEmail(svc, m) ==
    IF m.override_from_email_address # "" /\ svc.allow_override_email_from
    THEN m.override_from_email_address
    ELSE IF svc.from_email_address # ""
         THEN svc.from_email_address
         ELSE DefaultFromEmail

(***************************************************************************)
(* Rendering.                                                              *)
(***************************************************************************)
\* What json.loads(body) yields: "invalid" (JSONDecodeError), "object" (a
\* dict, without the keys subject and body), "number", "null", "string" or
\* "array".
JsonKind(body) ==
    CASE body = "{\"k\": 1}" -> "object"
      [] body = "5" -> "number"
      [] body = "null" -> "null"
      [] body \in {"\"\"", "\"ab\""} -> "string"
      [] body \in {"[]", "[1, 2]", "[\"ab\"]"} -> "array"
      [] OTHER -> "invalid"

\* What iterating over a decoded string or array yields, each item given
\* by its length as a sequence (NULL: the item is no sequence). A string
\* yields its characters, an array its elements.
JsonItems(body) ==
    CASE body = "\"ab\"" -> <<1, 1>>
      [] body = "[1, 2]" -> <<NULL, NULL>>
      [] body = "[\"ab\"]" -> <<2>>
      [] OTHER -> <<>>

\* dict.update(value) / dict(value) for a decoded body: a mapping is taken
\* as it is; anything else is iterated as a sequence of key/value pairs,
\* which raises TypeError for a value or an item that is no sequence and
\* ValueError for an item whose length is not 2.
DictUpdate(body) ==
    LET items == JsonItems(body)
        bad   == {i \in 1..Len(items) : items[i] # 2}
    IN  CASE JsonKind(body) = "object" -> ""
          [] JsonKind(body) \in {"number", "null"} -> "TypeError"
          [] OTHER -> IF bad = {} THEN ""
                      ELSE IF items[CHOOSE i \in bad : \A j \in bad : i <= j] = NULL
                           THEN "TypeError"
                           ELSE "ValueError: dictionary update sequence element"

\* Message.get_context(): the subject and body the templates see, or the
\* error raised: the ValueError of an unknown json_body_policy, or what
\* context.update(json.loads(body)) raises other than JSONDecodeError and
\* TypeError.
GetContext(svc, m) ==
    IF svc.json_body_policy \in {PERMIT, REQUIRE}
    THEN IF JsonKind(m.body) # "invalid" /\ DictUpdate(m.body) \notin {"", "TypeError"}
         THEN [err |-> DictUpdate(m.body), subject |-> "", body |-> ""]
         ELSE [err |-> "", subject |-> m.subject, body |-> m.body]
    ELSE IF svc.json_body_policy = FORBID
    THEN [err |-> "", subject |-> m.subject, body |-> m.body]
    ELSE [err |-> "ValueError: json_body_policy", subject |-> "", body |-> ""]

\* A rendered text: the variable or literal text, inside markup or not.
NoText == [markup |-> FALSE, text |-> ""]

\* DjangoTemplate(source).render(context) for the template sources of the
\* model.
RenderSource(source, ctx) ==
    CASE source = "{{ subject }}" -> [markup |-> FALSE, text |-> ctx.subject]
      [] source = "{{ body }}" -> [markup |-> FALSE, text |-> ctx.body]
      [] source = "<div>{{ body }}</div>" -> [markup |-> TRUE, text |-> ctx.body]
      [] OTHER -> [markup |-> FALSE, text |-> source]

\* BeautifulSoup(source).get_text().strip(): the source without its tags.
GetText(source) ==
    IF source = "<div>{{ body }}</div>" THEN "{{ body }}" ELSE source

\* Template.get_body_plaintext() of a template that extends nothing
GetBodyPlaintext(tpl) ==
    IF tpl.autogenerate_plaintext_body THEN GetText(tpl.body_html)
    ELSE tpl.body_plaintext

\* Template.render(context): (subject, plaintext_body, html_body)
TemplateRender(tpl, ctx) ==
    [subject |-> RenderSource(tpl.subject, ctx),
     plaintext |-> RenderSource(GetBodyPlaintext(tpl), ctx),
     html |-> RenderSource(tpl.body_html, ctx)]

\* Python's truth of a rendered string: the empty string is false.
Truthy(t) == t # NoText

\* Message.render(): Service.get_template() falls back to DefaultTemplate,
\* a name service.py never imports, so a service without a template raises
\* NameError; get_context() is evaluated after get_template().
MessageRender(svc, m) ==
    IF svc.template.name = "none"
    THEN [err |-> "NameError: DefaultTemplate", out |-> TemplateRender(svc.template, [subject |-> "", body |-> ""])]
    ELSE LET ctx == GetContext(svc, m)
         IN  [err |-> ctx.err, out |-> TemplateRender(svc.template, ctx)]

(***************************************************************************)
(* Rate limiter.                                                           *)
(***************************************************************************)
\* datetime.day and datetime.isoweekday() of a clock value; 2019-12-01, the
\* epoch, is a Sunday (isoweekday 7).
DayOf(t) == (t \div MinutesPerDay) + 1
IsoWeekday(t) == ((DayOf(t) + 5) % 7) + 1

\* A timeframe that is the rolling window whatever the type of the limit.
GetTimeframeRolling(rl, t) == [err |-> "", start |-> t - rl.rolling_window, end |-> t]

\* RateLimit.get_timeframe(now): (start, end), or the error it raises.
\* datetime.replace(day=n) raises ValueError unless n is a day of the month.
GetTimeframe(rl, t) ==
    LET hour == t - (t % MinutesPerHour)
        day  == t - (t % MinutesPerDay)
        back == DayOf(t) - IsoWeekday(t)
    IN  IF rl.type = ROLLING_WINDOW
        THEN [err |-> "", start |-> t - rl.rolling_window, end |-> t]
        ELSE IF rl.type = BLOCK_PERIOD
        THEN IF rl.block_period = HOUR THEN [err |-> "", start |-> hour, end |-> t]
             ELSE IF rl.block_period = DAY THEN [err |-> "", start |-> day, end |-> t]
             ELSE IF back < 1 THEN [err |-> "ValueError: day is out of range for month", start |-> 0, end |-> t]
             ELSE IF rl.block_period = WEEK
                  THEN [err |-> "", start |-> (back - 1) * MinutesPerDay, end |-> t]
             ELSE IF rl.block_period = MONTH
                  THEN [err |-> "", start |-> 0, end |-> t]
             ELSE [err |-> "Exception: RateLimit type or block period not known", start |-> 0, end |-> t]
        ELSE [err |-> "Exception: RateLimit type or block period not known", start |-> 0, end |-> t]

\* A window that leaves out the messages created exactly at its start.
InWindowAfter(rows, tf) ==
    {pk \in DOMAIN rows : rows[pk].created > tf.start /\ rows[pk].created <= tf.end}

\* service.messages.filter(created__gte=then, created__lte=now): the pks
InWindow(rows, tf) ==
    {pk \in DOMAIN rows : rows[pk].created >= tf.start /\ rows[pk].created <= tf.end}

Max(S) == CHOOSE x \in S : \A y \in S : y <= x

\* the fields of Message that are GenericForeignKeys: the ORM resolves no
\* lookup through them
GenericForeignKeys == {"user"}

\* [base_query.filter(user__groups=g).count() for g in groups]: the
\* lookup goes through Message.user, a GenericForeignKey, so building the
\* query raises FieldError; through a relation it would count, per group,
\* the messages of the group's users.
GroupCounts(rows, base, ug, groups) ==
    IF "user" \in GenericForeignKeys
    THEN [err |-> "FieldError: user", counts |-> {}]
    ELSE [err |-> "",
          counts |-> {Cardinality({pk \in base : rows[pk].user # NoUser /\ g \in ug[rows[pk].user]}) :
                        g \in groups}]

\* RateLimit.check_service(service, user, groups): admit (count < quantity),
\* or the error it raises. groups is the set of the user's groups that the
\* service allows ({} also stands for None).
CheckService(rl, rows, ug, t, user, groups) ==
    LET tf   == GetTimeframe(rl, t)
        base == InWindow(rows, tf)
        per  == GroupCounts(rows, base, ug, groups)
    IN  IF tf.err # "" THEN [err |-> tf.err, admit |-> FALSE]
        ELSE IF rl.grouping = PER_USER /\ user # NoUser
        THEN [err |-> "", admit |-> Cardinality({pk \in base : rows[pk].user = user}) < rl.quantity]
        ELSE IF rl.grouping = PER_GROUP /\ groups # {}
        THEN IF per.err # "" THEN [err |-> per.err, admit |-> FALSE]
             ELSE [err |-> "", admit |-> Max(per.counts) < rl.quantity]
        ELSE IF rl.grouping = TOTAL
        THEN [err |-> "", admit |-> Cardinality(base) < rl.quantity]
        ELSE [err |-> "ValueError: grouping", admit |-> FALSE]

\* A limiter that still admits when the count has reached the quantity.
CheckRateLimitInclusive(svc, rows, ug, t, user, groups) ==
    IF svc.rate_limit.name = "none" THEN [err |-> "", admit |-> TRUE]
    ELSE LET tf == GetTimeframe(svc.rate_limit, t)
         IN  [err |-> tf.err,
              admit |-> Cardinality(InWindow(rows, tf)) <= svc.rate_limit.quantity]

\* Service.check_rate_limit(user, groups)
CheckRateLimit(svc, rows, ug, t, user, groups) ==
    IF svc.rate_limit.name = "none" THEN [err |-> "", admit |-> TRUE]
    ELSE CheckService(svc.rate_limit, rows, ug, t, user, groups)

\* body.update(json.loads(self.body)) under the REQUIRE policy:
\* JSONDecodeError and TypeError become JSONBodyRequired, any other
\* exception leaves the check as it is.
RequireJsonBody(body) ==
    IF JsonKind(body) = "invalid" \/ DictUpdate(body) = "TypeError"
    THEN "JSONBodyRequired"
    ELSE DictUpdate(body)

\* Message._pre_create_check(): "" when the message may be created, else
\* the exception raised.
PreCreateCheck(svc, rows, ug, t, m) ==
    LET groups == IF m.user # NoUser THEN ug[m.user] \cap svc.allowed_groups ELSE {}
        rate   == IF svc.rate_limit.name # "none"
                  THEN CheckRateLimit(svc, rows, ug, t, m.user, groups)
                  ELSE [err |-> "", admit |-> TRUE]
    IN  IF rate.err # "" THEN rate.err
        ELSE IF ~rate.admit THEN "RateLimitException"
        ELSE IF svc.json_body_policy \in {FORBID, PERMIT} THEN ""
        ELSE IF svc.json_body_policy = REQUIRE THEN RequireJsonBody(m.body)
        ELSE "ValueError: json_body_policy"

(***************************************************************************)
(* Rows and in-memory objects.                                             *)
(***************************************************************************)
\* Service.template is null
NoTemplate ==
    [name |-> "none", subject |-> "", body_html |-> "", body_plaintext |-> "",
     autogenerate_plaintext_body |-> FALSE]

\* A Template row with the field defaults (the default HTML body is cut to
\* its one variable element).
DefaultsTemplate ==
    [name |-> "defaults", subject |-> "{{ subject }}",
     body_html |-> "<div>{{ body }}</div>", body_plaintext |-> "{{ body }}",
     autogenerate_plaintext_body |-> TRUE]

\* A Template row with a literal subject, no HTML body and its own
\* plaintext body.
PlainTemplate ==
    [name |-> "plain", subject |-> "Weekly news", body_html |-> "",
     body_plaintext |-> "{{ body }}", autogenerate_plaintext_body |-> FALSE]

\* Service.rate_limit is null
NoRateLimit ==
    [name |-> "none", grouping |-> TOTAL, quantity |-> 1, type |-> BLOCK_PERIOD,
     block_period |-> HOUR, rolling_window |-> MinutesPerHour]

NoAddresses == [k \in Kinds |-> {}]

\* Message(...): the object a caller constructs, not yet saved. args are
\* the constructor's arguments.
NewObject(args) ==
    [pk |-> NULL, user |-> args.user, subject |-> args.subject, body |-> args.body,
     override_from_email_address |-> args.override_from_email_address,
     created |-> NULL, ready_to_send |-> args.ready_to_send,
     sent |-> NULL, last_attempt |-> NULL,
     final_subject |-> NoText, final_body_plaintext |-> NoText,
     final_body_html |-> NoText, final_from_email_address |-> ""]

\* The constructor arguments and extra addresses of a caller's request, and
\* the authenticated user of an API request; ready_to_send holds the values
\* the caller may pass.
BasePlan ==
    [user |-> NoUser, subject |-> "hello", body |-> "plain text",
     override_from_email_address |-> "", ready_to_send |-> BOOLEAN,
     extras |-> NoAddresses, principal |-> "u1"]

\* a worker's bookkeeping outside a call
NoCall == [op |-> "", guard |-> FALSE, sends |-> 0, outcome |-> ""]

\* A guard that looks at ready_to_send and sent only.
SendGuardUnattempted(m) == m.ready_to_send /\ m.sent = NULL

\* The condition of Message.save() under which it calls send()
SendGuard(m) == m.ready_to_send /\ m.sent = NULL /\ m.last_attempt = NULL

\* rows of the Message table
Pks == DOMAIN messages

\* workers that passed the pre-create check and have yet to insert
PendingInserts == {w \in Workers : pc[w] = "write" /\ mem[w].pk = NULL}

(***************************************************************************)
(* Message.save() and Message.send(), step by step.                        *)
(***************************************************************************)
\* A caller constructs a Message for the service.
NewMessage(w) ==
    /\ pc[w] \in {"new", "idle"}
    /\ ncalls[w] < MaxCalls
    /\ \E ready \in plan[w].ready_to_send :
         mem' = [mem EXCEPT ![w] = NewObject([plan[w] EXCEPT !.ready_to_send = ready])]
    /\ pc' = [pc EXCEPT ![w] = "idle"]
    /\ call' = [call EXCEPT ![w] = NoCall]
    /\ UNCHANGED <<now, ticks, collect, emailRows, servers, ret, service, distribution, emailAddress, userGroups,
                   messages, extra, final, outbox, ncalls, plan, todo>>

\* A save() that writes the row before it runs the pre-create check.
SaveEnterAfterWrite(w) ==
    /\ pc[w] = "idle"
    /\ ncalls[w] < MaxCalls
    /\ LET m   == mem[w]
           exc == IF m.pk = NULL
                  THEN PreCreateCheck(service, messages, userGroups, now, m)
                  ELSE ""
           row == IF m.pk = NULL
                  THEN [m EXCEPT !.pk = Cardinality(Pks) + 1, !.created = now]
                  ELSE m
           entered == [op |-> "save", guard |-> SendGuard(m), sends |-> 0, outcome |-> ""]
       IN  /\ m.pk = NULL => Cardinality(Pks) + Cardinality(PendingInserts) < MaxMessages
           /\ messages' = [pk \in Pks \cup {row.pk} |-> IF pk = row.pk THEN row ELSE messages[pk]]
           /\ extra' = [pk \in Pks \cup {row.pk} |-> IF pk \in Pks THEN extra[pk] ELSE NoAddresses]
           /\ final' = [pk \in Pks \cup {row.pk} |-> IF pk \in Pks THEN final[pk] ELSE NoAddresses]
           /\ IF exc = ""
              THEN /\ pc' = [pc EXCEPT ![w] = "write"]
                   /\ call' = [call EXCEPT ![w] = entered]
              ELSE /\ pc' = [pc EXCEPT ![w] = "idle"]
                   /\ call' = [call EXCEPT ![w] = [entered EXCEPT !.outcome = exc]]
    /\ ncalls' = [ncalls EXCEPT ![w] = @ + 1]
    /\ UNCHANGED <<now, ticks, collect, emailRows, servers, ret, service, distribution, emailAddress, userGroups,
                   outbox, mem, plan, todo>>

\* Message.save() up to super().save(): a message being created passes
\* _pre_create_check() or the call ends with the exception it raises.
SaveEnter(w) ==
    /\ pc[w] = "idle"
    /\ ncalls[w] < MaxCalls
    /\ LET m   == mem[w]
           exc == IF m.pk = NULL
                  THEN PreCreateCheck(service, messages, userGroups, now, m)
                  ELSE ""
           entered == [op |-> "save", guard |-> SendGuard(m), sends |-> 0, outcome |-> ""]
       IN  /\ (m.pk = NULL /\ exc = "")
                => Cardinality(Pks) + Cardinality(PendingInserts) < MaxMessages
           /\ IF exc = ""
              THEN /\ pc' = [pc EXCEPT ![w] = "write"]
                   /\ call' = [call EXCEPT ![w] = entered]
              ELSE /\ pc' = [pc EXCEPT ![w] = "idle"]
                   /\ call' = [call EXCEPT ![w] = [entered EXCEPT !.outcome = exc]]
    /\ ncalls' = [ncalls EXCEPT ![w] = @ + 1]
    /\ UNCHANGED <<now, ticks, collect, emailRows, servers, ret, service, distribution, emailAddress, userGroups,
                   messages, extra, final, outbox, mem, plan, todo>>

\* super().save(): the row a save writes. A new object gets the next
\* primary key and created = now; an existing row has every column
\* overwritten with the object's values.
StoredRow(m, rows, t) ==
    IF m.pk = NULL
    THEN [m EXCEPT !.pk = Cardinality(DOMAIN rows) + 1, !.created = t]
    ELSE m

\* Message.save() from super().save() on: write the row, then call send()
\* if the object is ready and unsent and no attempt was made; else return.
\* The save() that send() ends with runs this step as well.
SuperSave(w) ==
    /\ pc[w] = "write"
    /\ LET row == StoredRow(mem[w], messages, now)
       IN  /\ mem' = [mem EXCEPT ![w] = row]
           /\ messages' = [pk \in Pks \cup {row.pk} |->
                              IF pk = row.pk THEN row ELSE messages[pk]]
           /\ extra' = [pk \in Pks \cup {row.pk} |->
                              IF pk \in Pks THEN extra[pk] ELSE NoAddresses]
           /\ final' = [pk \in Pks \cup {row.pk} |->
                              IF pk \in Pks THEN final[pk] ELSE NoAddresses]
           /\ IF SendGuard(row)
              THEN /\ pc' = [pc EXCEPT ![w] = "send"]
                   /\ call' = call
              ELSE /\ pc' = [pc EXCEPT ![w] = "idle"]
                   /\ call' = [call EXCEPT ![w].outcome = "returned"]
    /\ UNCHANGED <<now, ticks, collect, emailRows, servers, ret, service, distribution, emailAddress, userGroups,
                   outbox, ncalls, plan, todo>>

\* Message.send() up to the transport call: what it is about to hand to
\* EmailMultiAlternatives, or the error raised on the way (render first,
\* then the recipients, then the sender).
Compose(m, svc, dist, rows, extras) ==
    LET rendered == MessageRender(svc, m)
        emails   == GetFinalEmails(svc, dist, rows, extras)
    IN  [err |-> IF rendered.err # "" THEN rendered.err ELSE emails.err,
         subject |-> rendered.out.subject,
         plaintext |-> rendered.out.plaintext,
         html |-> rendered.out.html,
         to |-> emails.set["to"], cc |-> emails.set["cc"], bcc |-> emails.set["bcc"],
         from_email |-> GetFromEmail(svc, m)]

\* What email.send() may answer: Django's EmailMessage.send() returns 0
\* without calling the backend when there is no recipient at all; else the
\* backend reports success, reports failure or raises.
TransportResults(c) ==
    IF c.to \cup c.cc \cup c.bcc = {} THEN {"fail"} ELSE {"ok", "fail", "raise"}

\* An attempt that records the message's own subject instead of the
\* rendered one.
AttemptedOwnSubject(m, c, t, result) ==
    IF result = "ok"
    THEN [m EXCEPT !.last_attempt = t, !.sent = t,
                   !.final_from_email_address = c.from_email,
                   !.final_subject = [markup |-> FALSE, text |-> m.subject],
                   !.final_body_plaintext = IF Truthy(c.plaintext) THEN c.plaintext ELSE NoText,
                   !.final_body_html = IF Truthy(c.html) THEN c.html ELSE NoText]
    ELSE [m EXCEPT !.last_attempt = t]

\* Message.send() from the transport call to (not including) self.save():
\* the object after the attempt answered `result`.
Attempted(m, c, t, result) ==
    IF result = "ok"
    THEN [m EXCEPT !.last_attempt = t, !.sent = t,
                   !.final_from_email_address = c.from_email,
                   !.final_subject = c.subject,
                   !.final_body_plaintext = IF Truthy(c.plaintext) THEN c.plaintext ELSE NoText,
                   !.final_body_html = IF Truthy(c.html) THEN c.html ELSE NoText]
    ELSE [m EXCEPT !.last_attempt = t]

\* self.final_{to,cc,bcc}_email_addresses.add(...) after a success
FinalAdded(fin, c, result) ==
    IF result = "ok"
    THEN [k \in Kinds |-> fin[k] \cup (CASE k = "to" -> c.to [] k = "cc" -> c.cc [] OTHER -> c.bcc)]
    ELSE fin

\* The record of one email.send(): who called, for which row, what was
\* handed over and what was answered.
OutboxEntry(box, by, via, m, c, result) ==
    [seq |-> Cardinality(box) + 1, by |-> by, via |-> via, pk |-> m.pk,
     had_attempt |-> m.last_attempt # NULL, had_sent |-> m.sent # NULL,
     subject |-> c.subject, body |-> c.plaintext,
     html |-> IF Truthy(c.html) THEN c.html ELSE NoText,
     from_email |-> c.from_email, to |-> c.to, cc |-> c.cc, bcc |-> c.bcc,
     result |-> result]

\* EmailAddress.get_or_create(DEFAULT_FROM_EMAIL) inside get_from_email():
\* the row is created on first use (IMPRESSION_DEFAULT_UNSUBSCRIBED is
\* False).
WithSender(rows, a) ==
    IF a \in DOMAIN rows THEN rows
    ELSE [x \in DOMAIN rows \cup {a} |->
            IF x = a THEN [unsubscribed_from_all |-> FALSE, service_unsubscriptions |-> {}]
            ELSE rows[x]]

\* Message.send() up to its closing self.save(): compose, stamp
\* last_attempt, call the transport once, record a success in the object
\* and the final_* relations. An error ends the call; otherwise save()
\* follows.
Send(w) ==
    /\ pc[w] = "send"
    /\ LET m == mem[w]
           c == Compose(m, service, distribution, emailAddress, extra[m.pk])
       IN  IF c.err # ""
           THEN /\ pc' = [pc EXCEPT ![w] = "idle"]
                /\ call' = [call EXCEPT ![w].outcome = c.err]
                /\ UNCHANGED <<mem, final, outbox, emailAddress>>
           ELSE /\ Cardinality(outbox) < MaxOutbox
                /\ \E result \in TransportResults(c) :
                     /\ outbox' = outbox \cup {OutboxEntry(outbox, w, call[w].op, m, c, result)}
                     /\ mem' = [mem EXCEPT ![w] = Attempted(m, c, now, result)]
                     /\ final' = [final EXCEPT ![m.pk] = FinalAdded(@, c, result)]
                     /\ emailAddress' = WithSender(emailAddress, c.from_email)
                     /\ IF result = "raise"
                        THEN /\ pc' = [pc EXCEPT ![w] = "idle"]
                             /\ call' = [call EXCEPT ![w].sends = @ + 1,
                                                     ![w].outcome = "TransportError"]
                        ELSE /\ pc' = [pc EXCEPT ![w] = "write"]
                             /\ call' = [call EXCEPT ![w].sends = @ + 1]
    /\ UNCHANGED <<now, ticks, collect, emailRows, servers, ret, service, distribution, userGroups, messages, extra,
                   ncalls, plan, todo>>

\* The caller attaches the extra addresses of its request to the saved
\* message and marks it ready (api/views.py, backends.py).
MarkReady(w) ==
    /\ pc[w] = "idle"
    /\ mem[w].pk # NULL
    /\ ~mem[w].ready_to_send
    /\ extra' = [extra EXCEPT ![mem[w].pk] = [k \in Kinds |-> @[k] \cup plan[w].extras[k]]]
    /\ mem' = [mem EXCEPT ![w].ready_to_send = TRUE]
    /\ UNCHANGED <<now, ticks, collect, emailRows, servers, ret, service, distribution, emailAddress, userGroups,
                   messages, final, outbox, pc, call, ncalls, plan, todo>>

\* A caller invokes send() on its object directly, as the re-drive command
\* does.
CallSend(w) ==
    /\ pc[w] = "idle"
    /\ mem[w].pk # NULL
    /\ ncalls[w] < MaxCalls
    /\ pc' = [pc EXCEPT ![w] = "send"]
    /\ call' = [call EXCEPT ![w] = [op |-> "send", guard |-> SendGuard(mem[w]),
                                    sends |-> 0, outcome |-> ""]]
    /\ ncalls' = [ncalls EXCEPT ![w] = @ + 1]
    /\ UNCHANGED <<now, ticks, collect, emailRows, servers, ret, service, distribution, emailAddress, userGroups,
                   messages, extra, final, outbox, mem, plan, todo>>

\* Another process fetches a stored row into an object of its own
\* (Message.objects.get, the admin's change form).
Load(w) ==
    /\ pc[w] \in {"new", "idle"}
    /\ ncalls[w] < MaxCalls
    /\ \E pk \in Pks : mem' = [mem EXCEPT ![w] = messages[pk]]
    /\ pc' = [pc EXCEPT ![w] = "idle"]
    /\ call' = [call EXCEPT ![w] = NoCall]
    /\ UNCHANGED <<now, ticks, collect, emailRows, servers, ret, service, distribution, emailAddress, userGroups,
                   messages, extra, final, outbox, ncalls, plan, todo>>

\* the steps by which the clock advances: a minute, an hour, a day
TickSteps == {1, MinutesPerHour, MinutesPerDay}

\* Time passes.
Tick ==
    /\ ticks < MaxTicks
    /\ \E d \in TickSteps :
         /\ DayOf(now + d) <= 31
         /\ now' = now + d
    /\ ticks' = ticks + 1
    /\ UNCHANGED <<collect, emailRows, servers, ret, service, distribution, emailAddress, userGroups, messages, extra,
                   final, outbox, pc, mem, call, ncalls, plan, todo>>

(***************************************************************************)
(* The re-drive command, impression_send_emails.                           *)
(***************************************************************************)
\* the names the module django.db exports; Q is a name of django.db.models
DjangoDbNames ==
    {"connection", "connections", "router", "transaction", "models",
     "DatabaseError", "IntegrityError", "OperationalError"}

\* the fields of Message a query may name
MessageFields ==
    {"service", "user_type", "user_id", "subject", "body",
     "override_from_email_address", "extra_to_email_addresses",
     "extra_cc_email_addresses", "extra_bcc_email_addresses", "created",
     "updated", "ready_to_send", "sent", "last_attempt", "final_subject",
     "final_body_plaintext", "final_body_html", "final_from_email_address",
     "final_to_email_addresses", "final_cc_email_addresses",
     "final_bcc_email_addresses"}

\* The rows q would select if its lookups resolved to ready_to_send and
\* sent.
HandleQResolved(row) ==
    [err |-> "", match |-> row.ready_to_send /\ row.sent = NULL]

\* The command's q = Q(read_to_send=True, send__isnull=True) against a
\* row: `from django.db import Q` fails when the command is loaded, and the
\* lookups name no field of Message, so the query raises instead of
\* matching.
HandleQ(row) ==
    IF ~({"Q", "transaction"} \subseteq DjangoDbNames)
    THEN [err |-> "ImportError: Q", match |-> FALSE]
    ELSE IF ~({"read_to_send", "send"} \subseteq MessageFields)
    THEN [err |-> "FieldError: read_to_send", match |-> FALSE]
    ELSE HandleQResolved(row)

MinPk(S) == CHOOSE x \in S : \A y \in S : x <= y

\* One step of Command.handle(): first the reference query; then, per
\* candidate pk, one transaction that locks the row, fetches it if it
\* still matches q, and calls send() on it (send() ends with save()). An
\* exception leaves the transaction rolled back and ends the command.
handle(s) ==
    /\ pc[s] \in {"start", "rows"}
    /\ IF pc[s] = "start"
       THEN /\ IF HandleQ(NewObject([BasePlan EXCEPT !.ready_to_send = FALSE])).err # ""
               THEN /\ pc' = [pc EXCEPT ![s] = "raised"]
                    /\ todo' = todo
               ELSE /\ pc' = [pc EXCEPT ![s] = "rows"]
                    /\ todo' = [todo EXCEPT ![s] = {pk \in Pks : HandleQ(messages[pk]).match}]
            /\ UNCHANGED <<messages, final, outbox, emailAddress>>
       ELSE IF todo[s] = {}
       THEN /\ pc' = [pc EXCEPT ![s] = "done"]
            /\ UNCHANGED <<messages, final, outbox, emailAddress, todo>>
       ELSE LET pk  == MinPk(todo[s])
                row == messages[pk]
                c   == Compose(row, service, distribution, emailAddress, extra[pk])
            IN  IF ~HandleQ(row).match
                THEN /\ todo' = [todo EXCEPT ![s] = @ \ {pk}]
                     /\ UNCHANGED <<messages, final, outbox, emailAddress, pc>>
                ELSE IF c.err # ""
                THEN /\ pc' = [pc EXCEPT ![s] = "raised"]
                     /\ UNCHANGED <<messages, final, outbox, emailAddress, todo>>
                ELSE /\ Cardinality(outbox) < MaxOutbox
                     /\ \E result \in TransportResults(c) :
                          /\ outbox' = outbox \cup {OutboxEntry(outbox, s, "sweep", row, c, result)}
                          /\ IF result = "raise"
                             THEN /\ pc' = [pc EXCEPT ![s] = "raised"]
                                  /\ UNCHANGED <<messages, final, emailAddress, todo>>
                             ELSE /\ messages' = [messages EXCEPT ![pk] = Attempted(row, c, now, result)]
                                  /\ final' = [final EXCEPT ![pk] = FinalAdded(@, c, result)]
                                  /\ emailAddress' = WithSender(emailAddress, c.from_email)
                                  /\ todo' = [todo EXCEPT ![s] = @ \ {pk}]
                                  /\ pc' = pc
    /\ UNCHANGED <<now, ticks, collect, emailRows, servers, ret, service, distribution, userGroups, extra, mem, call,
                   ncalls, plan>>

(***************************************************************************)
(* Initial states.                                                         *)
(***************************************************************************)
\* 2019-12-11 04:32, the instant of the repository's rate-limit tests
TestNow == (10 * MinutesPerDay) + (4 * MinutesPerHour) + 32

\* A service with the field defaults of Service, a template and one "to"
\* address.
BaseService ==
    [is_unsubscribable |-> TRUE, allow_override_email_from |-> FALSE,
     allow_extra_target_email_addresses |-> FALSE, json_body_policy |-> FORBID,
     template |-> DefaultsTemplate, from_email_address |-> "",
     rate_limit |-> NoRateLimit,
     email_addresses |-> [to |-> {"a1"}, cc |-> {}, bcc |-> {}],
     distributions |-> NoAddresses, allowed_groups |-> {}]

\* Two distributions that reference each other; d2 also references itself.
\* A third one is empty and referenced by nothing.
CyclicDistributions ==
    [d \in Dists |->
        CASE d = "d1" -> [email_addresses |-> {"a2"}, distributions |-> {"d2"}]
          [] d = "d2" -> [email_addresses |-> {"a3"}, distributions |-> {"d1", "d2"}]
          [] OTHER -> [email_addresses |-> {}, distributions |-> {}]]

Subscribed == [unsubscribed_from_all |-> FALSE, service_unsubscriptions |-> {}]

\* no call of Distribution.collect_email_addresses() in progress
NoCollect == [pc |-> "idle", root |-> "", stack |-> <<>>, seen |-> {}, result |-> {}, calls |-> 0]

\* no call on the EmailAddress or RemoteImpressionServer table yet
NoReturn == [op |-> "", input |-> <<>>, pk |-> NULL, created |-> FALSE, err |-> ""]

\* No Message row, nothing sent, no call in progress.
InitMessageTables ==
    /\ ticks = 0
    /\ messages = [pk \in {} |-> NewObject([BasePlan EXCEPT !.ready_to_send = FALSE])]
    /\ extra = [pk \in {} |-> NoAddresses]
    /\ final = [pk \in {} |-> NoAddresses]
    /\ outbox = {}
    /\ call = [w \in Workers |-> NoCall]
    /\ ncalls = [w \in Workers |-> 0]
    /\ mem = [w \in Workers |-> NewObject([plan[w] EXCEPT !.ready_to_send = FALSE])]
    /\ todo = [s \in Sweepers |-> {}]
    /\ collect = NoCollect

\* The tables and processes every initial state of the message layer
\* shares: the above, and no row resolved or server configured.
InitTables ==
    /\ InitMessageTables
    /\ emailRows = {}
    /\ servers = {}
    /\ ret = NoReturn

\* What every initial state of delivery shares.
InitCommon ==
    /\ distribution = CyclicDistributions
    /\ userGroups = [u \in Users |-> Groups]
    /\ InitTables

\* Delivery: services with and without a template, unsubscribable or not,
\* with one recipient or none; two workers and the re-drive command.
Init ==
    /\ now = TestNow
    /\ \E unsub \in BOOLEAN, tpl \in {NoTemplate, DefaultsTemplate, PlainTemplate},
          to \in {{}, {"a1"}} :
         service = [BaseService EXCEPT !.is_unsubscribable = unsub, !.template = tpl,
                                       !.email_addresses = [NoAddresses EXCEPT !["to"] = to]]
    /\ emailAddress = [a \in Addresses |-> Subscribed]
    /\ plan = [w \in Workers |-> BasePlan]
    /\ pc = [p \in Workers \cup Sweepers |-> IF p \in Workers THEN "new" ELSE "start"]
    /\ InitCommon

\* Delivery through one service that has a template and a recipient.
InitOne ==
    /\ now = TestNow
    /\ service = [BaseService EXCEPT !.template = PlainTemplate]
    /\ emailAddress = [a \in Addresses |-> Subscribed]
    /\ plan = [w \in Workers |-> BasePlan]
    /\ pc = [p \in Workers \cup Sweepers |-> IF p \in Workers THEN "new" ELSE "start"]
    /\ InitCommon

\* the rate limits of the rate-limit specification: TOTAL, one or two
\* messages per hour block, day block or rolling hour
RateLimits ==
    {[name |-> "limit", grouping |-> TOTAL, quantity |-> q, type |-> ty,
      block_period |-> bp, rolling_window |-> MinutesPerHour] :
        q \in {1, 2}, ty \in {BLOCK_PERIOD, ROLLING_WINDOW}, bp \in {HOUR, DAY}}

\* Rate limiting: a service without a rate limit or with one of RateLimits;
\* the callers create messages that are not ready yet.
InitRate ==
    /\ now = TestNow
    /\ \E rl \in {NoRateLimit} \cup RateLimits :
         service = [BaseService EXCEPT !.template = PlainTemplate, !.rate_limit = rl]
    /\ emailAddress = [a \in Addresses |-> Subscribed]
    /\ plan = [w \in Workers |-> [BasePlan EXCEPT !.ready_to_send = {FALSE}]]
    /\ pc = [p \in Workers \cup Sweepers |-> IF p \in Workers THEN "new" ELSE "start"]
    /\ InitCommon

\* the unsubscribe states of an EmailAddress row
UnsubscribeStates ==
    {[unsubscribed_from_all |-> all, service_unsubscriptions |-> from] :
        all \in BOOLEAN, from \in {{}, {ThisService}, {OtherService}}}
        \ {[unsubscribed_from_all |-> TRUE, service_unsubscriptions |-> {ThisService}]}

\* Recipients: services that are unsubscribable or not, allow extra
\* addresses or not, with or without a distribution; addresses in every
\* unsubscribe state; requests with and without extra addresses. One
\* worker issues the requests.
InitRecipients ==
    /\ now = TestNow
    /\ \E unsub \in BOOLEAN, allow \in BOOLEAN, cc \in {{}, {"d1"}} :
         service = [BaseService EXCEPT
                       !.is_unsubscribable = unsub,
                       !.allow_extra_target_email_addresses = allow,
                       !.template = PlainTemplate,
                       !.distributions = [NoAddresses EXCEPT !["cc"] = cc]]
    /\ emailAddress \in [Addresses -> UnsubscribeStates]
    /\ \E to \in {{}, {"a2"}}, bcc \in {{}, {"a3"}} :
         plan = [w \in Workers |->
                    [BasePlan EXCEPT !.extras = [NoAddresses EXCEPT !["to"] = to, !["bcc"] = bcc]]]
    /\ pc = [p \in Workers \cup Sweepers |-> IF p = "w1" THEN "new" ELSE "off"]
    /\ InitCommon

(***************************************************************************)
(* Specifications.                                                         *)
(***************************************************************************)
\* The model layer driven through save(), and the re-drive command.
Next ==
    \/ \E w \in Workers : NewMessage(w)
    \/ \E w \in Workers : SaveEnter(w)
    \/ \E w \in Workers : SuperSave(w)
    \/ \E w \in Workers : Send(w)
    \/ \E w \in Workers : MarkReady(w)
    \/ \E s \in Sweepers : handle(s)

Spec == Init /\ [][Next]_vars

\* ... with callers that also invoke send() directly.
NextSend == Next \/ \E w \in Workers : CallSend(w)

SpecSend == InitOne /\ [][NextSend]_vars

\* ... with processes that fetch a stored row into an object of their own.
NextCopies == Next \/ \E w \in Workers : Load(w)

SpecCopies == InitOne /\ [][NextCopies]_vars

(***************************************************************************)
(* Properties of delivery.                                                 *)
(***************************************************************************)
\* the transport calls made for the message pk
CallsFor(pk) == {e \in outbox : e.pk = pk}

\* workers whose top-level save() of a stored message has ended
SaveEnded(w) == call[w].op = "save" /\ call[w].outcome # "" /\ mem[w].pk # NULL

C2_SaveSendsExactlyOnce ==
    \A w \in Workers :
        SaveEnded(w) => call[w].sends = (IF call[w].guard THEN 1 ELSE 0)

Recorded(e) ==
    /\ e.result # "raise"
    /\ messages[e.pk].last_attempt # NULL

\* C4: once an attempt is stored, a success left sent and exactly what the
\* transport was given in the final_* columns and relations; a failure left
\* last_attempt, a null sent and empty final_* values.
C4_FinalsMatchTransport ==
    \A e \in outbox :
        Recorded(e) =>
            LET row == messages[e.pk]
            IN  IF e.result = "ok"
                THEN /\ row.sent # NULL
                     /\ row.final_subject = e.subject
                     /\ row.final_body_plaintext = e.body
                     /\ row.final_body_html = e.html
                     /\ row.final_from_email_address = e.from_email
                     /\ final[e.pk] = [to |-> e.to, cc |-> e.cc, bcc |-> e.bcc]
                ELSE /\ row.sent = NULL
                     /\ row.final_subject = NoText
                     /\ row.final_body_plaintext = NoText
                     /\ row.final_body_html = NoText
                     /\ row.final_from_email_address = ""
                     /\ final[e.pk] = NoAddresses

\* C4 happens: one stored message was sent through a template whose subject
\* is not the message's, another one failed.
C4_Witness ==
    /\ \E e \in outbox : Recorded(e) /\ e.result = "ok"
                         /\ e.subject.text # messages[e.pk].subject
    /\ \E e \in outbox : Recorded(e) /\ e.result = "fail"

\* C5: no step clears ready_to_send, sent or last_attempt of a stored row.
C5_StoredFlagsMonotonic ==
    [][\A pk \in Pks :
          /\ messages[pk].ready_to_send => messages'[pk].ready_to_send
          /\ messages[pk].sent # NULL => messages'[pk].sent # NULL
          /\ messages[pk].last_attempt # NULL => messages'[pk].last_attempt # NULL]_vars

\* C6: after an attempt in which the transport raised, the stored message
\* has last_attempt set and sent null.
C6_RaiseIsRecorded ==
    \A w \in Workers :
        call[w].outcome = "TransportError"
            => /\ messages[mem[w].pk].last_attempt # NULL
               /\ messages[mem[w].pk].sent = NULL

(***************************************************************************)
(* Specifications of rate limiting and of the recipients.                  *)
(***************************************************************************)
\* Messages created through save() while time passes.
NextRate ==
    \/ \E w \in Workers : NewMessage(w)
    \/ \E w \in Workers : SaveEnter(w)
    \/ \E w \in Workers : SuperSave(w)
    \/ Tick

SpecRate == InitRate /\ [][NextRate]_vars

\* The model layer driven through save(), requests with extra addresses.
NextRecipients ==
    \/ \E w \in Workers : NewMessage(w)
    \/ \E w \in Workers : SaveEnter(w)
    \/ \E w \in Workers : SuperSave(w)
    \/ \E w \in Workers : Send(w)
    \/ \E w \in Workers : MarkReady(w)

SpecRecipients == InitRecipients /\ [][NextRecipients]_vars

(***************************************************************************)
(* Properties of rate limiting and of the recipients.                      *)
(***************************************************************************)
\* the service's messages created within the current timeframe
CountInTimeframe ==
    Cardinality(InWindow(messages, GetTimeframe(service.rate_limit, now)))

\* worker w's step is a save() that creates a message and runs the check
ChecksCreation(w) ==
    /\ pc[w] = "idle" /\ mem[w].pk = NULL
    /\ ncalls'[w] = ncalls[w] + 1 /\ call'[w].op = "save"

\* C7: the creation of a message is admitted iff the service has no rate
\* limit or fewer than quantity of its messages were created within the
\* current timeframe; otherwise it ends with RateLimitException.
C7_AdmittedIffBelowQuantity ==
    [][\A w \in Workers :
          ChecksCreation(w) =>
              ((call'[w].outcome = "" /\ pc'[w] = "write")
                  <=> (service.rate_limit.name = "none"
                          \/ CountInTimeframe < service.rate_limit.quantity))
              /\ ((call'[w].outcome = "RateLimitException" /\ pc'[w] = "idle")
                  <=> (service.rate_limit.name # "none"
                          /\ CountInTimeframe >= service.rate_limit.quantity))]_vars

\* C7 happens: with quantity 2, a creation was rejected with two messages
\* in the timeframe after one was admitted with one message in it.
C7_Witness ==
    /\ service.rate_limit.name # "none" /\ service.rate_limit.quantity = 2
    /\ CountInTimeframe = 2
    /\ \E w \in Workers : call[w].outcome = "RateLimitException" /\ mem[w].pk = NULL
    /\ \E pk \in Pks : \E qk \in Pks \ {pk} :
          messages[qk].created >= GetTimeframe(service.rate_limit, messages[pk].created).start
          /\ messages[qk].created <= messages[pk].created /\ qk < pk

\* the addresses a transport call was given
Recipients(e) == e.to \cup e.cc \cup e.bcc

\* C8: for an unsubscribable service, no transport call has a recipient
\* that is unsubscribed from everything or from the service.
C8_NoUnsubscribedRecipient ==
    service.is_unsubscribable =>
        \A e \in outbox : \A a \in Recipients(e) :
            /\ ~emailAddress[a].unsubscribed_from_all
            /\ ThisService \notin emailAddress[a].service_unsubscriptions

\* C8 happens: a message went out although one address of the service or
\* of the request is globally unsubscribed, and another one is
\* unsubscribed from the service.
C8_Witness ==
    /\ service.is_unsubscribable
    /\ \E e \in outbox :
         /\ Recipients(e) # {}
         /\ \E a \in (service.email_addresses["to"] \cup DistributionCollect(distribution, "d1")
                          \cup extra[e.pk]["to"]) \ Recipients(e) :
               emailAddress[a].unsubscribed_from_all
         /\ \E a \in Addresses \ Recipients(e) :
               ~emailAddress[a].unsubscribed_from_all
               /\ ThisService \in emailAddress[a].service_unsubscriptions

\* C9: for a service that is not unsubscribable, computing the recipients
\* and sending complete: no call ends in an error of the recipient filter,
\* and a save() of a ready message reaches the transport.
C9_PassThroughCompletes ==
    ~service.is_unsubscribable =>
        \A w \in Workers :
            (SaveEnded(w) /\ call[w].guard) => call[w].sends = 1

\* C10: when the service does not allow extra addresses, every transport
\* call's recipients of each kind are the filtered addresses the service
\* collects for that kind, without the message's extra addresses.
C10_ExtrasOnlyIfAllowed ==
    ~service.allow_extra_target_email_addresses =>
        \A e \in outbox :
            LET col == ServiceCollect(service, distribution)
                own == [k \in Kinds |-> {a \in col[k] : ~IsUnsubscribedFrom(emailAddress, a, ThisService)}]
            IN  e.to = own["to"] /\ e.cc = own["cc"] /\ e.bcc = own["bcc"]

(***************************************************************************)
(* The sender.                                                             *)
(***************************************************************************)
\* Senders: services that allow an override or not, with or without an
\* address of their own; requests with and without an override address.
InitFrom ==
    /\ now = TestNow
    /\ \E allow \in BOOLEAN, from \in {"", "a2"} :
         service = [BaseService EXCEPT !.allow_override_email_from = allow,
                                       !.from_email_address = from,
                                       !.template = PlainTemplate]
    /\ emailAddress = [a \in Addresses |-> Subscribed]
    /\ \E override \in {"", "a3"} :
         plan = [w \in Workers |-> [BasePlan EXCEPT !.override_from_email_address = override]]
    /\ pc = [p \in Workers \cup Sweepers |-> IF p \in Workers THEN "new" ELSE "off"]
    /\ InitCommon

SpecFrom == InitFrom /\ [][NextRecipients]_vars

\* C11: every transport call is made with the message's override address
\* iff the message has one and the service allows overrides; otherwise with
\* the service's address if it has one; otherwise with the address of the
\* DEFAULT_FROM_EMAIL setting, which then is a stored row.
C11_SenderPrecedence ==
    \A e \in outbox :
        LET override == messages[e.pk].override_from_email_address
        IN  /\ (override # "" /\ service.allow_override_email_from)
                 => e.from_email = override
            /\ (override = "" \/ ~service.allow_override_email_from)
                 => /\ service.from_email_address # ""
                         => e.from_email = service.from_email_address
                    /\ service.from_email_address = ""
                         => /\ e.from_email = DefaultFromEmail
                            /\ DefaultFromEmail \in DOMAIN emailAddress

\* C11 happens: a message with an override address went out for a service
\* that disallows overrides, under another sender.
C11_Witness ==
    \E e \in outbox :
        /\ messages[e.pk].override_from_email_address = "a3"
        /\ ~service.allow_override_email_from
        /\ e.from_email # "a3"
        /\ e.result = "ok"

(***************************************************************************)
(* Creation: the JSON body policy and rejected requests.                   *)
(***************************************************************************)
\* the bodies of the requests: plain text, and JSON texts of every kind
Bodies ==
    {"plain text", "{\"k\": 1}", "5", "null", "\"\"", "\"ab\"", "[]", "[1, 2]", "[\"ab\"]"}

\* a limit of one message per hour block for the whole service
OnePerHour ==
    [name |-> "limit", grouping |-> TOTAL, quantity |-> 1, type |-> BLOCK_PERIOD,
     block_period |-> HOUR, rolling_window |-> MinutesPerHour]

\* Creation: services of every JSON body policy, with or without a rate
\* limit; one caller's requests have a body of any kind, the other's a
\* JSON object.
InitCreate ==
    /\ now = TestNow
    /\ \E policy \in {FORBID, PERMIT, REQUIRE}, rl \in {NoRateLimit, OnePerHour} :
         service = [BaseService EXCEPT !.json_body_policy = policy, !.rate_limit = rl,
                                       !.template = PlainTemplate]
    /\ emailAddress = [a \in Addresses |-> Subscribed]
    /\ \E body \in Bodies :
         plan = [w \in Workers |->
                    [BasePlan EXCEPT !.body = IF w = "w1" THEN body ELSE "{\"k\": 1}"]]
    /\ pc = [p \in Workers \cup Sweepers |-> IF p \in Workers THEN "new" ELSE "off"]
    /\ InitCommon

SpecCreate == InitCreate /\ [][NextRecipients]_vars

\* the exceptions by which the pre-create check rejects a creation
Rejections == {"RateLimitException", "JSONBodyRequired"}

\* C12: under the 'require' policy, a save() that creates a message and is
\* not stopped by the rate limit ends with JSONBodyRequired iff the body is
\* not a JSON object, and goes on to store the message iff it is one.
C12_RequireRejectsNonObjects ==
    \A w \in Workers :
        (/\ service.json_body_policy = REQUIRE
         /\ call[w].op = "save"
         /\ call[w].outcome # "RateLimitException")
            => IF JsonKind(mem[w].body) = "object"
               THEN call[w].outcome # "JSONBodyRequired" /\ (call[w].outcome # "" => mem[w].pk # NULL)
               ELSE call[w].outcome = "JSONBodyRequired" /\ mem[w].pk = NULL

\* C13: a save() that the pre-create check rejects (rate limit, 'require'
\* policy) stores no row and calls no transport: the messages, their
\* relations, the outbox and the count within the timeframe stay as they
\* were, and the object has no primary key.
C13_RejectionLeavesNoTrace ==
    [][\A w \in Workers :
          (ChecksCreation(w) /\ call'[w].outcome \in Rejections)
              => /\ messages' = messages
                 /\ extra' = extra /\ final' = final
                 /\ outbox' = outbox
                 /\ mem'[w].pk = NULL
                 /\ CountInTimeframe' = CountInTimeframe]_vars

\* C13 happens: one creation was rejected for its body, another one by the
\* rate limit after a message was stored and sent.
C13_Witness ==
    /\ \E w \in Workers : call[w].outcome = "JSONBodyRequired" /\ mem[w].pk = NULL
    /\ \E w \in Workers : call[w].outcome = "RateLimitException" /\ mem[w].pk = NULL
    /\ Cardinality(Pks) = 1
    /\ outbox # {}

(***************************************************************************)
(* Distribution.collect_email_addresses(), call by call.                   *)
(***************************************************************************)
\* calls of collect_email_addresses one top-level call may make
MaxCollectCalls == 5

\* A membership test that never finds a distribution.
InCollectedNever(d, already_collected) == FALSE

\* `d in already_collected`
InCollected(d, already_collected) == d \in already_collected

\* A union that drops what the child returned.
MergedOwn(r, returned) == r

\* `r |= d.collect_email_addresses(already_collected)`
Merged(r, returned) == r \cup returned

\* The frame of one call on distribution d: the children its loop has yet
\* to visit and its r.
Frame(dist, d) ==
    [d |-> d, rest |-> dist[d].distributions, r |-> dist[d].email_addresses]

\* A caller invokes d.collect_email_addresses() with no argument:
\* already_collected becomes {d}.
CollectCall(d) ==
    /\ collect.pc = "idle"
    /\ collect' = [pc |-> "run", root |-> d, stack |-> <<Frame(distribution, d)>>,
                   seen |-> {d}, result |-> {}, calls |-> 1]
    /\ UNCHANGED <<now, ticks, service, distribution, emailAddress, userGroups,
                   messages, extra, final, outbox, pc, mem, call, ncalls, plan, todo,
                   emailRows, servers, ret>>

\* One step of the innermost call: its loop takes the next child and skips
\* it or calls collect_email_addresses on it (which adds the child to the
\* shared already_collected); after the loop the call returns r to its
\* caller.
CollectStep ==
    /\ collect.pc = "run"
    /\ LET n     == Len(collect.stack)
           f     == collect.stack[n]
           below == SubSeq(collect.stack, 1, n - 1)
       IN  IF f.rest = {}
           THEN IF n = 1
                THEN collect' = [collect EXCEPT !.pc = "done", !.stack = <<>>, !.result = f.r]
                ELSE collect' = [collect EXCEPT
                                    !.stack = [below EXCEPT ![n - 1].r = Merged(@, f.r)]]
           ELSE \E c \in f.rest :
                  LET g == [f EXCEPT !.rest = @ \ {c}]
                  IN  IF InCollected(c, collect.seen)
                      THEN collect' = [collect EXCEPT !.stack = Append(below, g)]
                      ELSE /\ collect.calls < MaxCollectCalls
                           /\ collect' = [collect EXCEPT
                                             !.stack = Append(Append(below, g), Frame(distribution, c)),
                                             !.seen = @ \cup {c},
                                             !.calls = @ + 1]
    /\ UNCHANGED <<now, ticks, service, distribution, emailAddress, userGroups,
                   messages, extra, final, outbox, pc, mem, call, ncalls, plan, todo,
                   emailRows, servers, ret>>

\* the address sets a distribution of the resolver's specification may hold
MemberChoices(d) ==
    CASE d = "d1" -> {{"a1"}}
      [] d = "d2" -> {{"a2"}, {"a1", "a2"}}
      [] OTHER -> {{}, {"a3"}, {"a1", "a3"}}

\* Resolver: every graph over the distributions, self-loops and cycles
\* included; nothing else happens.
InitCollect ==
    /\ now = TestNow
    /\ service = BaseService
    /\ emailAddress = [a \in Addresses |-> Subscribed]
    /\ plan = [w \in Workers |-> BasePlan]
    /\ pc = [p \in Workers \cup Sweepers |-> "off"]
    /\ distribution \in [Dists -> [email_addresses : SUBSET Addresses,
                                   distributions : SUBSET Dists]]
    /\ \A d \in Dists : distribution[d].email_addresses \in MemberChoices(d)
    /\ userGroups = [u \in Users |-> Groups]
    /\ InitTables

NextCollect ==
    \/ \E d \in Dists : CollectCall(d)
    \/ CollectStep

SpecCollect == InitCollect /\ [][NextCollect]_vars

\* ... where a call that can take a step does take it.
SpecCollectFair == SpecCollect /\ WF_vars(CollectStep)

\* C14: on every graph a top-level collect_email_addresses() returns, after
\* no more calls than there are distributions.
C14_CollectTerminates ==
    /\ [](collect.calls <= Cardinality(Dists))
    /\ (collect.pc = "run") ~> (collect.pc = "done")

\* C14 happens: a call has returned for a distribution that references
\* itself and stands in a cycle with another one.
C14_Witness ==
    /\ collect.pc = "done"
    /\ collect.root \in distribution[collect.root].distributions
    /\ \E d \in distribution[collect.root].distributions \ {collect.root} :
          collect.root \in distribution[d].distributions
    /\ collect.calls >= 2

\* the distributions reachable from d through child links, d included
Reachable(dist, d) ==
    LET Grow(S) == S \cup UNION {dist[x].distributions : x \in S}
    IN  Grow(Grow(Grow({d})))

\* C15: what a top-level collect_email_addresses() on D returns is exactly
\* the set of the direct members of D and of the distributions reachable
\* from D.
C15_CollectsReachableMembers ==
    collect.pc = "done" =>
        LET members == UNION {distribution[x].email_addresses :
                                 x \in Reachable(distribution, collect.root)}
        IN  /\ collect.result = members
            /\ DistributionCollect(distribution, collect.root) = members

\* C15 happens: a call has returned where an address is a member of two
\* reachable distributions, the call ran into a distribution already
\* collected, and an unreachable distribution has a member of its own.
C15_Witness ==
    /\ collect.pc = "done"
    /\ \E x \in collect.seen : \E y \in collect.seen \ {x} :
          distribution[x].email_addresses \cap distribution[y].email_addresses # {}
    /\ \E x \in collect.seen : distribution[x].distributions \cap collect.seen # {}
                               /\ collect.root \in distribution[x].distributions
    /\ \E z \in Dists \ collect.seen : distribution[z].email_addresses \ collect.result # {}

(***************************************************************************)
(* Properties of the re-drive command.                                     *)
(***************************************************************************)
\* the rows that are ready and unsent
ReadyUnsent == {pk \in Pks : messages[pk].ready_to_send /\ messages[pk].sent = NULL}

\* C16: the command's scan yields the ready, unsent rows as candidates, and
\* the command hands a row to the transport only if the row, read under
\* its lock, is ready and unsent.
C16_SweepSendsOnlyRecheckedRows ==
    [][\A s \in Sweepers :
          /\ (pc[s] = "start" /\ pc'[s] # "start")
                => (pc'[s] = "rows" /\ todo'[s] = ReadyUnsent)
          /\ \A e \in outbox' \ outbox :
                e.by = s => (e.pk \in todo[s] /\ e.pk \in ReadyUnsent)]_vars

\* C17: a delivery that fails does not end the command: it never stops
\* with an exception.
C17_SweepSurvivesFailures ==
    \A s \in Sweepers : pc[s] # "raised"

(***************************************************************************)
(* The message-creation API.                                               *)
(***************************************************************************)
\* A permission check that asks for any group at all.
HasAnyGroup(ug, u, svc) == ug[u] # {}

\* request.user.groups.filter(pk__in=allowed_groups): the user belongs to
\* one of the service's allowed groups
HasAllowedGroup(ug, u, svc) == ug[u] \cap svc.allowed_groups # {}

\* SendMessageAPIView.create_message() up to message.save(): the request
\* of an authenticated user is denied, or a Message (without user, not
\* ready) is constructed, which the view saves next. After save() the view
\* raises AttributeError (EmailAddress has no filter_unsubscribed), leaving
\* the row as save() stored it.
create_message(w) ==
    /\ pc[w] \in {"new", "idle"}
    /\ ncalls[w] < MaxCalls
    /\ IF HasAllowedGroup(userGroups, plan[w].principal, service)
       THEN /\ mem' = [mem EXCEPT ![w] =
                          NewObject([plan[w] EXCEPT !.user = NoUser, !.ready_to_send = FALSE])]
            /\ pc' = [pc EXCEPT ![w] = "idle"]
            /\ call' = [call EXCEPT ![w] = [NoCall EXCEPT !.op = "api"]]
       ELSE /\ mem' = mem
            /\ pc' = [pc EXCEPT ![w] = "new"]
            /\ call' = [call EXCEPT ![w] = [NoCall EXCEPT !.op = "api",
                                                          !.outcome = "PermissionDenied"]]
    /\ UNCHANGED <<now, ticks, collect, emailRows, servers, ret, service, distribution, emailAddress, userGroups,
                   messages, extra, final, outbox, ncalls, plan, todo>>

\* The API: services that allow any set of groups, users in any groups,
\* each caller a user.
InitApi ==
    /\ now = TestNow
    /\ \E allowed \in SUBSET Groups :
         service = [BaseService EXCEPT !.allowed_groups = allowed, !.template = PlainTemplate]
    /\ userGroups \in [Users -> SUBSET Groups]
    /\ emailAddress = [a \in Addresses |-> Subscribed]
    /\ \E who \in [Workers -> Users] :
         plan = [w \in Workers |-> [BasePlan EXCEPT !.principal = who[w]]]
    /\ pc = [p \in Workers \cup Sweepers |-> IF p \in Workers THEN "new" ELSE "off"]
    /\ distribution = CyclicDistributions
    /\ InitTables

\* Messages are created through the API only.
NextApi ==
    \/ \E w \in Workers : create_message(w)
    \/ \E w \in Workers : SaveEnter(w)
    \/ \E w \in Workers : SuperSave(w)

SpecApi == InitApi /\ [][NextApi]_vars

\* the callers whose user belongs to an allowed group of the service
Permitted ==
    {w \in Workers : userGroups[plan[w].principal] \cap service.allowed_groups # {}}

\* C18: a caller whose user is in none of the service's allowed groups is
\* denied and never has a Message, saved or not; rows exist only if some
\* permitted caller called save(), and nothing is sent for the others.
C18_ApiRequiresAllowedGroup ==
    /\ \A w \in Workers \ Permitted :
          /\ mem[w].pk = NULL /\ ncalls[w] = 0 /\ pc[w] = "new"
          /\ call[w].op = "api" => call[w].outcome = "PermissionDenied"
    /\ Pks # {} => \E w \in Permitted : ncalls[w] > 0
    /\ \A e \in outbox : e.by \in Permitted

\* C18 happens: one user was denied, another one's message is stored.
C18_Witness ==
    /\ \E w \in Workers \ Permitted :
          call[w].outcome = "PermissionDenied" /\ userGroups[plan[w].principal] # {}
    /\ \E w \in Permitted : mem[w].pk \in Pks

(***************************************************************************)
(* Rate limits per user and per group.                                     *)
(***************************************************************************)
\* a grouping value that is none of RateLimit.GROUPING_CHOICES
UnknownGrouping == 3

\* the rate limits of the grouping specification: one or two messages per
\* hour block, under every grouping
GroupingLimits ==
    {[name |-> "limit", grouping |-> g, quantity |-> q, type |-> BLOCK_PERIOD,
      block_period |-> HOUR, rolling_window |-> MinutesPerHour] :
        g \in {TOTAL, PER_USER, PER_GROUP, UnknownGrouping}, q \in {1, 2}}

\* Groupings: a rate limit of every grouping; services that allow any set
\* of groups; messages with and without a user, the first user in any
\* groups; the callers create messages that are not ready yet.
InitGroups ==
    /\ now = TestNow
    /\ \E rl \in GroupingLimits, allowed \in SUBSET Groups :
         service = [BaseService EXCEPT !.rate_limit = rl, !.allowed_groups = allowed,
                                       !.template = PlainTemplate]
    /\ \E gs \in SUBSET Groups :
         userGroups = [u \in Users |-> IF u = "u1" THEN gs ELSE Groups]
    /\ emailAddress = [a \in Addresses |-> Subscribed]
    /\ \E who \in [Workers -> Users \cup {NoUser}] :
         plan = [w \in Workers |-> [BasePlan EXCEPT !.user = who[w], !.ready_to_send = {FALSE}]]
    /\ pc = [p \in Workers \cup Sweepers |-> IF p \in Workers THEN "new" ELSE "off"]
    /\ distribution = CyclicDistributions
    /\ InitTables

\* Messages created through save().
NextGroups ==
    \/ \E w \in Workers : NewMessage(w)
    \/ \E w \in Workers : SaveEnter(w)
    \/ \E w \in Workers : SuperSave(w)

SpecGroups == InitGroups /\ [][NextGroups]_vars

\* the groups passed to the limiter for a message of user u
PassedGroups(u) ==
    IF u = NoUser THEN {} ELSE userGroups[u] \cap service.allowed_groups

\* the service's messages within the timeframe whose user is in group g
CountOfGroup(g) ==
    Cardinality({pk \in InWindow(messages, GetTimeframe(service.rate_limit, now)) :
                    messages[pk].user # NoUser /\ g \in userGroups[messages[pk].user]})

\* C19: under PER_GROUP, a creation for which groups are passed is admitted
\* iff the largest of the groups' counts is below quantity, and rejected
\* with RateLimitException otherwise.
C19_PerGroupComparesMaximum ==
    [][\A w \in Workers :
          (/\ ChecksCreation(w)
           /\ service.rate_limit.grouping = PER_GROUP
           /\ PassedGroups(mem[w].user) # {})
              => LET most == Max({CountOfGroup(g) : g \in PassedGroups(mem[w].user)})
                 IN  IF most < service.rate_limit.quantity
                     THEN call'[w].outcome = "" /\ pc'[w] = "write"
                     ELSE call'[w].outcome = "RateLimitException"]_vars

\* C20: check_service raises only for a grouping that is none of total,
\* per-user and per-group: under a valid grouping every creation is
\* admitted or rejected with RateLimitException, whoever its user is.
C20_ValidGroupingNeverRaises ==
    \A w \in Workers :
        (call[w].op = "save" /\ service.rate_limit.grouping \in {TOTAL, PER_USER, PER_GROUP})
            => call[w].outcome \in {"", "returned", "RateLimitException"}

(***************************************************************************)
(* Timeframes.                                                             *)
(***************************************************************************)
\* the rate limits of the timeframe specification: TOTAL, two messages per
\* hour, day, week or month block, or per rolling hour or day
TimeframeLimits ==
    {[name |-> "limit", grouping |-> TOTAL, quantity |-> 2, type |-> BLOCK_PERIOD,
      block_period |-> bp, rolling_window |-> MinutesPerHour] : bp \in {HOUR, DAY, WEEK, MONTH}}
    \cup
    {[name |-> "limit", grouping |-> TOTAL, quantity |-> 2, type |-> ROLLING_WINDOW,
      block_period |-> HOUR, rolling_window |-> rw] : rw \in {MinutesPerHour, MinutesPerDay}}

\* 04:32 on every day of the month but the last
StartTimes == {(d * MinutesPerDay) + (4 * MinutesPerHour) + 32 : d \in 0..29}

\* Timeframes: a limit of every type and block period, the clock starting
\* on any day of the month; one caller creates messages that are not ready
\* yet.
InitTimeframe ==
    /\ now \in StartTimes
    /\ \E rl \in TimeframeLimits :
         service = [BaseService EXCEPT !.template = PlainTemplate, !.rate_limit = rl]
    /\ emailAddress = [a \in Addresses |-> Subscribed]
    /\ plan = [w \in Workers |-> [BasePlan EXCEPT !.ready_to_send = {FALSE}]]
    /\ pc = [p \in Workers \cup Sweepers |-> IF p = "w1" THEN "new" ELSE "off"]
    /\ InitCommon

SpecTimeframe == InitTimeframe /\ [][NextRate]_vars

\* the service's limit is of the block period bp
BlockLimit(bp) ==
    service.rate_limit.type = BLOCK_PERIOD /\ service.rate_limit.block_period = bp

\* a creation ended with the error of datetime.replace
ReplaceFailed ==
    \E w \in Workers : call[w].outcome = "ValueError: day is out of range for month"

\* C21: under a week block, at every instant, get_timeframe returns
\* (start, now) where start is 00:00 of a day at most six days before
\* now's day, and 2019-12-08 00:00 for 2019-12-11 04:32; no creation ends
\* with the error of datetime.replace.
C21_WeekTimeframe ==
    BlockLimit(WEEK) =>
        LET tf == GetTimeframe(service.rate_limit, now)
        IN  /\ tf.err = "" /\ ~ReplaceFailed
            /\ tf.end = now
            /\ tf.start % MinutesPerDay = 0
            /\ tf.start <= now /\ now - tf.start < 7 * MinutesPerDay
            /\ now = TestNow => tf.start = 7 * MinutesPerDay

\* C22: under a month block, at every instant, get_timeframe returns
\* (start, now) where start is 00:00 of day 1 of the month; no creation
\* ends with the error of datetime.replace.
C22_MonthTimeframe ==
    BlockLimit(MONTH) =>
        LET tf == GetTimeframe(service.rate_limit, now)
        IN  /\ tf.err = "" /\ ~ReplaceFailed
            /\ tf.end = now
            /\ tf.start = 0

\* C23: at every instant get_timeframe returns (start, now) with start =
\* now - rolling_window for a rolling window, the start of now's hour for
\* an hour block and the start of now's day for a day block.
C23_RollingHourDayTimeframe ==
    LET rl == service.rate_limit
        tf == GetTimeframe(rl, now)
    IN  /\ rl.type = ROLLING_WINDOW
            => (tf.err = "" /\ tf.end = now /\ tf.start + rl.rolling_window = now)
        /\ BlockLimit(HOUR)
            => /\ tf.err = "" /\ tf.end = now
               /\ tf.start % MinutesPerHour = 0
               /\ tf.start <= now /\ now - tf.start < MinutesPerHour
        /\ BlockLimit(DAY)
            => /\ tf.err = "" /\ tf.end = now
               /\ tf.start % MinutesPerDay = 0
               /\ tf.start <= now /\ now - tf.start < MinutesPerDay

\* C23 happens: under an hour block, at an instant that is not the start
\* of an hour, a creation was rejected with two messages created in the
\* hour, after time has passed.
C23_Witness ==
    /\ BlockLimit(HOUR)
    /\ now % MinutesPerHour # 0 /\ ticks > 0
    /\ CountInTimeframe = 2
    /\ \E w \in Workers : call[w].outcome = "RateLimitException"

(***************************************************************************)
(* EmailAddress.get_or_create.                                             *)
(***************************************************************************)
\* Strings are sequences of characters.  str.lower() on one character:
Lower(c) ==
    CASE c = "J" -> "j" [] c = "X" -> "x" [] c = "O" -> "o" [] c = "D" -> "d"
      [] OTHER -> c

\* the letters of the alphabet, lower case
Letters == {"j", "x", "o", "d"}

\* str.lower()
StrLower(s) == [i \in 1..Len(s) |-> Lower(s[i])]

NotSpace(c) == c # " "

\* "".join(s.split()): s without its whitespace
SplitJoin(s) == SelectSeq(s, NotSpace)

\* EmailAddress.extract_display_email: if the whole string matches
\* .*<(.*)> (it ends with ">" and has a "<" before; the greedy .* takes
\* the last one) the group, else the string; without whitespace, lowered.
ExtractDisplayEmail(email) ==
    LET n     == Len(email)
        opens == {i \in 1..(n - 1) : email[i] = "<"}
    IN  IF n > 0 /\ email[n] = ">" /\ opens # {}
        THEN StrLower(SplitJoin(SubSeq(email, Max(opens) + 1, n - 1)))
        ELSE StrLower(SplitJoin(email))

\* letters in one or more non-empty labels separated by single dots
DotAtom(s) ==
    /\ Len(s) > 0
    /\ \A i \in 1..Len(s) : Lower(s[i]) \in Letters \cup {"."}
    /\ s[1] # "." /\ s[Len(s)] # "."
    /\ \A i \in 1..(Len(s) - 1) : ~(s[i] = "." /\ s[i + 1] = ".")

\* The validator of EmailField, run by full_clean(): a dot-atom user part,
\* "@", and a domain of two labels or more whose last has two characters
\* or more (split at the last "@").
ValidEmail(s) ==
    LET ats == {i \in 1..Len(s) : s[i] = "@"}
    IN  /\ ats # {}
        /\ LET at     == Max(ats)
               user   == SubSeq(s, 1, at - 1)
               domain == SubSeq(s, at + 1, Len(s))
               dots   == {i \in 1..Len(domain) : domain[i] = "."}
           IN  /\ DotAtom(user)
               /\ DotAtom(domain)
               /\ dots # {}
               /\ Len(domain) - Max(dots) >= 2

\* the strings callers resolve
Jane == <<"j", "@", "x", ".", "o", "o">>
Dox == <<"d", "@", "x", ".", "o", "o">>
Olo == <<"o", "@", "x", ".", "o", "o">>
JaneUpper == <<"J", "@", "X", ".", "O", "O">>
DoxUpper == <<"D", "@", "x", ".", "O", "o">>
\* " j@x.oo", "j@x.oo " and "j @x.oo"
JaneSpaced == {<<" ">> \o Jane, Jane \o <<" ">>, <<"j", " ">> \o SubSeq(Jane, 2, 6)}
\* "D <J@X.OO>", "<j@x.oo>", "< j@x.oo >" and " D <j@x.oo>"
JaneDisplayed ==
    {<<"D", " ", "<">> \o JaneUpper \o <<">">>,
     <<"<">> \o Jane \o <<">">>,
     <<"<", " ">> \o Jane \o <<" ", ">">>,
     <<" ", "D", " ", "<">> \o Jane \o <<">">>}
\* "D <j@x.oo> ": the display form followed by whitespace
JaneDisplayedThenSpace == <<"D", " ", "<">> \o Jane \o <<">", " ">>
\* no address: "", "jx.oo", "j@x", "j@x.o", "j<@x.oo"
Malformed ==
    {<<>>, <<"j", "x", ".", "o", "o">>, <<"j", "@", "x">>, <<"j", "@", "x", ".", "o">>,
     <<"j", "<", "@", "x", ".", "o", "o">>}

EmailStrings ==
    {Jane, JaneUpper, Dox, DoxUpper, Olo, JaneDisplayedThenSpace}
    \cup JaneSpaced \cup JaneDisplayed \cup Malformed

\* EmailAddress.get_or_create(email_string), one call from start to end,
\* unsubscribed being the setting IMPRESSION_DEFAULT_UNSUBSCRIBED at the
\* time of the call: the row whose address is the extracted string, or a
\* new row after full_clean(), which raises ValidationError for a string
\* that is no address.
get_or_create(email_string, unsubscribed) ==
    LET extracted == ExtractDisplayEmail(email_string)
        found     == {r \in emailRows : r.email_address = extracted}
        pk        == Cardinality(emailRows) + 1
    IN  /\ IF found # {}
           THEN /\ ret' = [op |-> "get_or_create", input |-> email_string,
                           pk |-> (CHOOSE r \in found : TRUE).pk, created |-> FALSE,
                           err |-> ""]
                /\ UNCHANGED emailRows
           ELSE IF ~ValidEmail(extracted)
           THEN /\ ret' = [op |-> "get_or_create", input |-> email_string, pk |-> NULL,
                           created |-> FALSE, err |-> "ValidationError"]
                /\ UNCHANGED emailRows
           ELSE /\ emailRows' = emailRows \cup
                        {[pk |-> pk, email_address |-> StrLower(extracted),
                          unsubscribed_from_all |-> unsubscribed]}
                /\ ret' = [op |-> "get_or_create", input |-> email_string, pk |-> pk,
                           created |-> TRUE, err |-> ""]
        /\ UNCHANGED <<now, ticks, service, distribution, emailAddress, userGroups,
                       messages, extra, final, outbox, pc, mem, call, ncalls, plan, todo,
                       collect, servers>>

\* get_or_create: an empty table; callers resolve strings one after the
\* other.
InitAddresses ==
    /\ now = TestNow
    /\ service = BaseService
    /\ emailAddress = [a \in Addresses |-> Subscribed]
    /\ plan = [w \in Workers |-> BasePlan]
    /\ pc = [p \in Workers \cup Sweepers |-> "off"]
    /\ InitCommon

NextAddresses == \E s \in EmailStrings, unsubscribed \in BOOLEAN : get_or_create(s, unsubscribed)

SpecAddresses == InitAddresses /\ [][NextAddresses]_vars

\* the row the last call returned
Returned == {r \in emailRows : r.pk = ret.pk}

\* the strings that differ from the address a only in letter case, in
\* whitespace or in a display name around it
WrittenAs(a) ==
    CASE a = Jane -> {Jane, JaneUpper, JaneDisplayedThenSpace} \cup JaneSpaced \cup JaneDisplayed
      [] a = Dox -> {Dox, DoxUpper}
      [] OTHER -> {a}

\* C24: at most one row per lower-cased address; a call with a string
\* that differs from an address only in case, whitespace or a display name
\* returns the row of that address; and when that row existed, it returns
\* created = False and adds no row.
C24_OneRowPerAddress ==
    /\ [](\A r1, r2 \in emailRows :
            StrLower(r1.email_address) = StrLower(r2.email_address) => r1 = r2)
    /\ [](\A a \in {Jane, Dox, Olo} :
            (ret.op = "get_or_create" /\ ret.input \in WrittenAs(a))
                => /\ ret.err = ""
                   /\ \E r \in Returned : r.email_address = a)
    /\ [][\A a \in {Jane, Dox, Olo} :
            (/\ ret'.input \in WrittenAs(a)
             /\ \E r \in emailRows : r.email_address = a)
                => (~ret'.created /\ emailRows' = emailRows)]_vars

(***************************************************************************)
(* RemoteImpressionServer.                                                 *)
(***************************************************************************)
MaxServers == 3

ServerNames == {"n1", "n2", "n3"}
Targets == {"t1", "t2"}
Tokens == {"k1"}

\* the settings IMPRESSION_DEFAULT_TARGET and IMPRESSION_DEFAULT_TOKEN
DefaultTargetAndToken == <<"default-target", "default-token">>

\* the objects a caller may hold and save: a new one or one loaded from a
\* row, its fields set to anything
ServerObjects ==
    [pk : {NULL} \cup {r.pk : r \in servers}, name : ServerNames, is_active : BOOLEAN,
     target : Targets, authentication_token : Tokens]

\* type(self).objects.filter(is_active=True).exclude(pk=self.pk)
Actives(obj) == {r \in servers : r.is_active /\ r.pk # obj.pk}

\* actives.first(): the row of the lowest pk
FirstActive(obj) == CHOOSE r \in Actives(obj) : \A q \in Actives(obj) : r.pk <= q.pk

\* A save that deactivates no row.
ToDeactivateNone(obj) == {}

\* the rows save() sets is_active=False on: the other active rows, all of
\* them for an active object, all but the first for an inactive one
ToDeactivate(obj) ==
    IF obj.is_active THEN Actives(obj) ELSE Actives(obj) \ {FirstActive(obj)}

\* the table after QuerySet.update(is_active=False) on the rows S
Deactivated(S) == {IF r \in S THEN [r EXCEPT !.is_active = FALSE] ELSE r : r \in servers}

\* the table after super().save() of obj under the primary key pk
Saved(rows, obj, pk) == {r \in rows : r.pk # pk} \cup {[obj EXCEPT !.pk = pk]}

ServerReturn(op, obj, pk, err, updated, value) ==
    [op |-> op, input |-> obj, pk |-> pk, err |-> err, updated |-> updated, value |-> value]

NoServerReturn ==
    ServerReturn("", [pk |-> NULL, name |-> "", is_active |-> FALSE, target |-> "",
                      authentication_token |-> ""], NULL, "", 0, <<"", "">>)

\* RemoteImpressionServer.save(), one call from start to end.  An inactive
\* object with no other active row: actives.first() is None and active.pk
\* raises AttributeError.  A name another row has: the unique constraint
\* raises IntegrityError in super().save(), after the update, which stays
\* unless the caller's transaction rolls it back.
save(obj) ==
    LET pk    == IF obj.pk = NULL THEN Cardinality(servers) + 1 ELSE obj.pk
        taken == \E r \in servers : r.name = obj.name /\ r.pk # obj.pk
    IN  /\ obj.pk = NULL => Cardinality(servers) < MaxServers
        /\ IF ~obj.is_active /\ Actives(obj) = {}
           THEN /\ ret' = ServerReturn("save", obj, NULL,
                            "AttributeError: 'NoneType' object has no attribute 'pk'",
                            0, <<"", "">>)
                /\ UNCHANGED servers
           ELSE LET updated == Deactivated(ToDeactivate(obj))
                    n       == Cardinality(ToDeactivate(obj))
                IN  IF taken
                    THEN /\ ret' = ServerReturn("save", obj, NULL, "IntegrityError", n,
                                                <<"", "">>)
                         /\ servers' \in {updated, servers}
                    ELSE /\ ret' = ServerReturn("save", obj, pk, "", n, <<"", "">>)
                         /\ servers' = Saved(updated, obj, pk)
        /\ UNCHANGED <<now, ticks, service, distribution, emailAddress, userGroups,
                       messages, extra, final, outbox, pc, mem, call, ncalls, plan, todo,
                       collect, emailRows>>

\* RemoteImpressionServer.get_target_and_token(): the target and token of
\* an active row (server[0] of an unordered query), or the settings.
get_target_and_token ==
    LET server == {r \in servers : r.is_active}
    IN  /\ IF server # {}
           THEN \E r \in server :
                  ret' = ServerReturn("get_target_and_token", NoServerReturn.input, r.pk,
                                      "", 0, <<r.target, r.authentication_token>>)
           ELSE ret' = ServerReturn("get_target_and_token", NoServerReturn.input, NULL,
                                    "", 0, DefaultTargetAndToken)
        /\ UNCHANGED <<now, ticks, service, distribution, emailAddress, userGroups,
                       messages, extra, final, outbox, pc, mem, call, ncalls, plan, todo,
                       collect, emailRows, servers>>

\* the tables the client starts from: no server, or one, active or not
StartServers ==
    {{}} \cup {{[pk |-> 1, name |-> "n1", is_active |-> a, target |-> "t1",
                 authentication_token |-> "k1"]} : a \in BOOLEAN}

\* The client's servers: at most one row, at most one active; callers save
\* objects and ask for the target one call after the other.
InitServers ==
    /\ now = TestNow
    /\ service = BaseService
    /\ emailAddress = [a \in Addresses |-> Subscribed]
    /\ plan = [w \in Workers |-> BasePlan]
    /\ pc = [p \in Workers \cup Sweepers |-> "off"]
    /\ distribution = CyclicDistributions
    /\ userGroups = [u \in Users |-> Groups]
    /\ InitMessageTables
    /\ emailRows = {}
    /\ servers \in StartServers
    /\ ret = NoServerReturn

NextServers ==
    \/ \E obj \in ServerObjects : save(obj)
    \/ get_target_and_token

SpecServers == InitServers /\ [][NextServers]_vars

ActiveServers == {r \in servers : r.is_active}

\* C25: at most one row is active, and after a save() of an active object
\* that completed, the saved row is the only active one.
C25_AtMostOneActive ==
    /\ Cardinality(ActiveServers) <= 1
    /\ (ret.op = "save" /\ ret.err = "" /\ ret.input.is_active)
          => ActiveServers = {r \in servers : r.pk = ret.pk}

\* C25 happens: a save() of an active object deactivated another row and
\* completed, in a table of three rows.
C25_Witness ==
    /\ ret.op = "save" /\ ret.err = "" /\ ret.input.is_active
    /\ ret.updated = 1
    /\ Cardinality(servers) = MaxServers
    /\ Cardinality(ActiveServers) = 1

\* C26: after save() of an inactive object with no active server left,
\* the call completed, the row is stored as saved, and
\* get_target_and_token returns the settings.
C26_InactiveSaveCompletes ==
    /\ (ret.op = "save" /\ ~ret.input.is_active /\ ActiveServers = {})
          => /\ ret.err = ""
             /\ \E r \in servers : r.pk = ret.pk /\ r.name = ret.input.name /\ ~r.is_active
    /\ (ret.op = "get_target_and_token" /\ ActiveServers = {})
          => ret.value = DefaultTargetAndToken

(***************************************************************************)
(* Rate limits over time and under concurrency.                            *)
(***************************************************************************)
\* TOTAL limits of one or two messages per rolling hour or day
RollingLimits ==
    {[name |-> "limit", grouping |-> TOTAL, quantity |-> q, type |-> ROLLING_WINDOW,
      block_period |-> HOUR, rolling_window |-> rw] :
        q \in {1, 2}, rw \in {MinutesPerHour, MinutesPerDay}}

\* Rolling windows: one caller creates messages one at a time, ready or
\* not, and sends them, while time passes.
InitRolling ==
    /\ now = TestNow
    /\ \E rl \in RollingLimits :
         service = [BaseService EXCEPT !.template = PlainTemplate, !.rate_limit = rl]
    /\ emailAddress = [a \in Addresses |-> Subscribed]
    /\ plan = [w \in Workers |-> BasePlan]
    /\ pc = [p \in Workers \cup Sweepers |-> IF p = "w1" THEN "new" ELSE "off"]
    /\ InitCommon

NextRolling ==
    \/ \E w \in Workers : NewMessage(w)
    \/ \E w \in Workers : SaveEnter(w)
    \/ \E w \in Workers : SuperSave(w)
    \/ \E w \in Workers : Send(w)
    \/ \E w \in Workers : MarkReady(w)
    \/ Tick

SpecRolling == InitRolling /\ [][NextRolling]_vars

\* the messages created in the interval of length d that starts at t
CreatedWithin(t, d) == {pk \in Pks : messages[pk].created >= t /\ messages[pk].created <= t + d}

\* C27: under a TOTAL rolling-window limit, with creations one at a time,
\* every interval of length rolling_window holds at most quantity created
\* messages, whatever became of them (it is enough to look at the
\* intervals that start at a message's creation).
C27_RollingWindowHoldsQuantity ==
    service.rate_limit.type = ROLLING_WINDOW =>
        \A pk \in Pks :
            Cardinality(CreatedWithin(messages[pk].created, service.rate_limit.rolling_window))
                <= service.rate_limit.quantity

\* C27 happens: with quantity 1, a second message was created one minute
\* after the window of the first, which had been attempted, had passed.
C27_Witness ==
    /\ service.rate_limit.type = ROLLING_WINDOW /\ service.rate_limit.quantity = 1
    /\ \E pk \in Pks : \E qk \in Pks :
          /\ messages[qk].created = messages[pk].created + service.rate_limit.rolling_window + 1
          /\ messages[pk].last_attempt # NULL

\* C28: under a TOTAL limit, also with callers creating messages
\* concurrently, the messages created inside the current timeframe never
\* number more than quantity.
C28_ConcurrentWithinQuantity ==
    (service.rate_limit.name # "none" /\ service.rate_limit.grouping = TOTAL
        /\ GetTimeframe(service.rate_limit, now).err = "")
        => CountInTimeframe <= service.rate_limit.quantity

(***************************************************************************)
(* The stored state of a message.                                          *)
(***************************************************************************)
\* no save() or send() of an object of row pk is under way
Settled(pk) == \A w \in Workers : mem[w].pk = pk => pc[w] \notin {"write", "send"}

\* some final_* column or relation of row pk is not empty
HasFinals(pk) ==
    \/ messages[pk].final_subject # NoText
    \/ messages[pk].final_body_plaintext # NoText
    \/ messages[pk].final_body_html # NoText
    \/ messages[pk].final_from_email_address # ""
    \/ \E k \in Kinds : final[pk][k] # {}

\* C29: in every stored row, between calls, sent non-null implies
\* last_attempt non-null and ready_to_send true, and a non-empty final_*
\* column or relation implies sent non-null.
C29_StoredStateInvariants ==
    \A pk \in Pks :
        Settled(pk) =>
            /\ messages[pk].sent # NULL
                  => (messages[pk].last_attempt # NULL /\ messages[pk].ready_to_send)
            /\ HasFinals(pk) => messages[pk].sent # NULL

(***************************************************************************)
(* The re-drive command run again and again.                               *)
(***************************************************************************)
\* The periodic job starts the command again after it ended.
Invoke(s) ==
    /\ pc[s] \in {"raised", "done"}
    /\ pc' = [pc EXCEPT ![s] = "start"]
    /\ todo' = [todo EXCEPT ![s] = {}]
    /\ UNCHANGED <<now, ticks, collect, emailRows, servers, ret, service, distribution,
                   emailAddress, userGroups, messages, extra, final, outbox, mem, call,
                   ncalls, plan>>

NextRedrive == Next \/ \E s \in Sweepers : Invoke(s)

\* The job keeps starting the command, the command and every call under
\* way keep taking their steps; nothing is assumed of the transport.
SpecRedrive ==
    /\ Init /\ [][NextRedrive]_vars
    /\ WF_vars(\E s \in Sweepers : Invoke(s))
    /\ WF_vars(\E s \in Sweepers : handle(s))
    /\ WF_vars(\E w \in Workers : SuperSave(w))
    /\ WF_vars(\E w \in Workers : Send(w))

\* the transport calls made for row pk
Attempts(pk) == Cardinality(CallsFor(pk))

\* C30: a stored row with a failed attempt stays ready and unsent until it
\* is sent; and with the command run again and again, every stored row
\* that is ready and unsent, no call on it under way, is eventually sent or
\* handed to the transport once more (which is what lets an eventual
\* success of the transport mark it sent).
C30_ReadyEventuallySent ==
    /\ [](\A pk \in Pks :
            (messages[pk].last_attempt # NULL /\ messages[pk].sent = NULL)
                => messages[pk].ready_to_send)
    /\ \A pk \in 1..MaxMessages : \A n \in 0..(MaxOutbox - 1) :
          (/\ pk \in ReadyUnsent /\ Settled(pk)
           /\ Attempts(pk) = n /\ Cardinality(outbox) < MaxOutbox)
            ~> (/\ pk \in Pks
                /\ (messages[pk].sent # NULL \/ Attempts(pk) > n))

====
